---- MODULE Spec2Model ----
(***************************************************************************)
(* happy.c -- a TCP happy eyeballs probing tool.                           *)
(*                                                                         *)
(* The model follows main(): the option loop, the resolution of the        *)
(* positional host names, and nqueries rounds of prepare() / collect(),    *)
(* with update() run after every select(), then sort() and the report.     *)
(* The environment is the wall clock, the kernel's descriptor table and    *)
(* the peers' answers.  Spec is the program on a short clock, LiveSpec the *)
(* program with fairness on a clock long enough for its runs to end, and   *)
(* SortSpec is sort() and the report on targets of up to three endpoints.  *)
(***************************************************************************)
EXTENDS Integers, Sequences, FiniteSets, TLC

VARIABLES
    pc,        \* position of main(): getopt, main, pace, issue, collect, ...
    argv,      \* the options of the command line not parsed yet
    nqueries,  \* static int nqueries
    timeout,   \* static int timeout (ms)
    delay,     \* static unsigned int delay (ms)
    targets,   \* the list  static target_t *targets
    i,         \* round counter of main()'s for loop
    cur,       \* prepare()'s cursor <<tp, ep>>
    dts,       \* prepare()'s pacing start time
    now,       \* the wall clock, in microseconds since the start of the run
    fds,       \* the kernel's descriptor table: open descriptor -> its use
    inet6ok,   \* whether the host supports AF_INET6 sockets
    prevIssue, \* history: time of the last but one socket() call of this round
    lastIssue, \* history: time of the last socket() call of this round
    diag,      \* the diagnostic of the fatal exit: <<message, argument>>
    smode,     \* static int smode: -s, sort before the report
    skmode,    \* static int skmode: -m, machine readable report
    out,       \* the lines written to stdout
    horizon,   \* the time at which the exploration of the clock ends
    presort,   \* history: the targets as sort() found them
    issued,    \* history: the endpoints prepare() visited in this round
    overdue    \* history: the attempts the last update() found both
               \* writable without error and past the timeout

vars == <<pc, argv, nqueries, timeout, delay, targets, i, cur, dts, now, fds,
          inet6ok, prevIssue, lastIssue, diag, smode, skmode, out, horizon,
          presort, issued, overdue>>

\* what only sort() and the report change, and the clock's horizon
tail == <<out, horizon, presort>>

----------------------------------------------------------------------------
(* Bounds of the exploration *)

\* the clock stops advancing after this many milliseconds
MaxTicks == 4

\* the host names on the command line
Hosts == <<"a", "b">>
\* what getaddrinfo() can answer for one host: a list of address families,
\* empty when the resolution fails
Resolutions == {<<>>, <<"inet">>, <<"inet6">>, <<"inet6", "inet">>}
\* the answers for all hosts: two endpoints at most are resolved
Answers ==
    {r \in [1..Len(Hosts) -> Resolutions] : Len(r[1]) + Len(r[2]) <= 2}
\* the arguments given to -t, -d and -q
TArgs == {0, 2}
DArgs == {0, 1}
QArgs == {0, 2}
\* the options
Options ==
    {[opt |-> "t", arg |-> n] : n \in TArgs}
        \cup {[opt |-> "d", arg |-> n] : n \in DArgs}
        \cup {[opt |-> "q", arg |-> n] : n \in QArgs}
\* no option at all, or up to three options with different letters, in
\* any order, -q among them
PlainLines ==
    {<<>>} \cup {s \in UNION {[1..n -> Options] : n \in 1..3} :
                    /\ \A j, k \in DOMAIN s : s[j].opt = s[k].opt => j = k
                    /\ \E k \in DOMAIN s : s[k].opt = "q"}
Opt(o, n) == [opt |-> o, arg |-> n]
\* two rounds without pacing and a short timeout, then -s or -m
FlagLines ==
    {<<Opt("q", 2), Opt("d", 0), Opt("t", 2), Opt(o, 0)>> : o \in {"s", "m"}}
\* -f with the number of rounds given before it, or changed after it
ImportLines ==
    {<<Opt("d", 0), Opt("q", 2), Opt("f", 0)>>,
     <<Opt("d", 0), Opt("q", 1), Opt("f", 0), Opt("q", 2)>>}
\* the command lines
CommandLines == PlainLines \cup FlagLines \cup ImportLines
\* the host names in the file given to -f
FileHosts == <<"c">>
\* what getaddrinfo() can answer for a name of the file
FileResolutions == {<<>>, <<"inet">>}

----------------------------------------------------------------------------
(* Program constants *)

DefaultNqueries == 3
DefaultTimeout == 2000
DefaultDelay == 25
UsPerMs == 1000
UsPerSec == 1000000

\* clock granularity and the lateness of a select() wake-up
Tick == UsPerMs
Jitter == Tick

None == 0 - 1

----------------------------------------------------------------------------
(* C arithmetic on the elapsed time *)

\* Every time of the model is below MaxTicks milliseconds, far below 2^31
\* microseconds: unsigned int and int arithmetic never wrap here, and the
\* conversions between the two keep the value.

\* the value stored by  values[idx] = us
PosSample(us) == us

\* the value stored by  values[idx] = -us : the negation of 0 is 0
NegSample(us) == 0 - us

\* us = td.tv_sec*1000000 + td.tv_usec  after  timersub(&tv, &ep->tvs, &td)
Elapsed(tv, tvs) == tv - tvs

\* us >= timeout * 1000
TimedOut(us, tmo) == us >= tmo * UsPerMs

----------------------------------------------------------------------------
(* Targets and endpoints *)

\* one endpoint as expand() creates it, zeroed by calloc(): tvs stays 0, the
\* start of the run, until an attempt is started.  att and kinds are
\* history fields: the number of attempts initiated, and what every sample
\* was recorded for ("phantom": a time-out of a descriptor that is not open).
\* cap is the number of elements of the array values: what is written past
\* its end is kept after it, where the later reads of values[i] find it
NewEndpoint(h, k, fam, nq) ==
    [addr |-> <<h, k>>, family |-> fam, socket |-> 0, tvs |-> 0,
     sum |-> 0, tot |-> 0, idx |-> 0, cnt |-> 0,
     values |-> [j \in 1..nq |-> 0], cap |-> nq,
     att |-> 0, kinds |-> <<>>]

\* expand(): the target of one resolved host
NewTarget(h, fams, nq) ==
    [host |-> h, num_endpoints |-> Len(fams),
     endpoints |-> [k \in 1..Len(fams) |-> NewEndpoint(h, k, fams[k], nq)]]

\* the positions <<tp, ep>> of all endpoints, in list order
Positions(tgts) ==
    UNION {{<<t, e>> : e \in 1..Len(tgts[t].endpoints)} : t \in 1..Len(tgts)}

Ep(tgts, p) == tgts[p[1]].endpoints[p[2]]

\* p is visited before q by the loops over targets and endpoints
Before(p, q) == p[1] < q[1] \/ (p[1] = q[1] /\ p[2] < q[2])

\* the position after p in target-then-endpoint order, <<0, 0>> at the end
NextPos(tgts, p) ==
    IF p[2] < Len(tgts[p[1]].endpoints) THEN <<p[1], p[2] + 1>>
    ELSE IF p[1] < Len(tgts) THEN <<p[1] + 1, 1>>
    ELSE <<0, 0>>

\* expand() and append() over the names hosts: res[k] is the answer of
\* getaddrinfo() for hosts[k], <<>> when it fails
ExpandAll(hosts, res, nq) ==
    LET F[k \in 0..Len(hosts)] ==
            IF k = 0 THEN <<>>
            ELSE IF res[k] = <<>> THEN F[k - 1]
            ELSE Append(F[k - 1], NewTarget(hosts[k], res[k], nq))
    IN  F[Len(hosts)]

\* the targets of the positional arguments
Expanded(res, nq) == ExpandAll(Hosts, res, nq)

\* the targets of the lines of the file read by import()
Imported(res, nq) == ExpandAll(FileHosts, res, nq)

\* two endpoints at most are resolved
Few(tgts) == Cardinality(Positions(tgts)) <= 2

----------------------------------------------------------------------------
(* The kernel's descriptor table *)

\* descriptors that are sockets of this program
Sockets == {f \in DOMAIN fds : fds[f] # "stdio"}

\* socket() returns the lowest free descriptor
LowestFree ==
    LET free == {f \in 0..Cardinality(DOMAIN fds) : f \notin DOMAIN fds}
    IN  CHOOSE f \in free : \A g \in free : f <= g

\* the table after close() of every descriptor in cl
CloseAll(cl) == [f \in (DOMAIN fds) \ cl |-> fds[f]]

----------------------------------------------------------------------------
(* generate_fdset *)

\* the descriptors FD_SET puts into the set: every non-zero ep->socket
GenerateFdset(tgts) ==
    {Ep(tgts, p).socket : p \in {q \in Positions(tgts) : Ep(tgts, q).socket # 0}}

\* the value generate_fdset returns
MaxOf(fdset) ==
    LET s == fdset \cup {0 - 1}
    IN  CHOOSE m \in s : \A x \in s : x <= m

----------------------------------------------------------------------------
(* update *)

\* values[k] = v, the first element being values[1] here
Store(vals, k, v) ==
    IF k <= Len(vals) THEN [vals EXCEPT ![k] = v] ELSE Append(vals, v)

\* update() testing FD_ISSET before the timeout
UpdateEpReadyFirst(ep, tv, rd, soerr, tmo, open) ==
    LET us == Elapsed(tv, ep.tvs)
    IN  IF ep.socket # 0 /\ ep.socket \in rd
        THEN IF ep.socket \notin soerr
             THEN [ep EXCEPT !.values = Store(@, ep.idx + 1, PosSample(us)),
                             !.sum = @ + us,
                             !.tot = @ + 1,
                             !.cnt = @ + 1,
                             !.idx = @ + 1,
                             !.socket = 0,
                             !.kinds = Append(@, "ok")]
             ELSE [ep EXCEPT !.values = Store(@, ep.idx + 1, NegSample(us)),
                             !.cnt = @ + 1,
                             !.idx = @ + 1,
                             !.socket = 0,
                             !.kinds = Append(@, "err")]
        ELSE IF ep.socket # 0 /\ TimedOut(us, tmo)
        THEN [ep EXCEPT !.values = Store(@, ep.idx + 1, NegSample(us)),
                        !.idx = @ + 1,
                        !.socket = 0,
                        !.kinds = Append(@, IF ep.socket \in open
                                            THEN "timeout" ELSE "phantom")]
        ELSE ep

\* update() on one endpoint: tv is the time read at entry, rd the descriptors
\* for which FD_ISSET is true, soerr those whose SO_ERROR is not zero
UpdateEp(ep, tv, rd, soerr, tmo, open) ==
    LET us == Elapsed(tv, ep.tvs)
    IN  IF ep.socket # 0 /\ TimedOut(us, tmo)
        THEN [ep EXCEPT !.values = Store(@, ep.idx + 1, NegSample(us)),
                        !.idx = @ + 1,
                        !.socket = 0,
                        !.kinds = Append(@, IF ep.socket \in open
                                            THEN "timeout" ELSE "phantom")]
        ELSE IF ep.socket # 0 /\ ep.socket \in rd
        THEN IF ep.socket \notin soerr
             THEN [ep EXCEPT !.values = Store(@, ep.idx + 1, PosSample(us)),
                             !.sum = @ + us,
                             !.tot = @ + 1,
                             !.cnt = @ + 1,
                             !.idx = @ + 1,
                             !.socket = 0,
                             !.kinds = Append(@, "ok")]
             ELSE [ep EXCEPT !.values = Store(@, ep.idx + 1, NegSample(us)),
                             !.cnt = @ + 1,
                             !.idx = @ + 1,
                             !.socket = 0,
                             !.kinds = Append(@, "err")]
        ELSE ep

\* getsockopt() returns -1 for this endpoint: its descriptor is not open
GetsockoptFails(ep, tv, rd, tmo, open) ==
    /\ ep.socket # 0
    /\ ~TimedOut(Elapsed(tv, ep.tvs), tmo)
    /\ ep.socket \in rd
    /\ ep.socket \notin open

\* update() exits in the middle of its loops
UpdateFatal(tgts, tv, rd, tmo, open) ==
    \E p \in Positions(tgts) : GetsockoptFails(Ep(tgts, p), tv, rd, tmo, open)

\* the targets after update(); the endpoints from the first failing
\* getsockopt() on are left as they were
Update(tgts, tv, rd, soerr, tmo, open) ==
    LET bad == {p \in Positions(tgts) :
                    GetsockoptFails(Ep(tgts, p), tv, rd, tmo, open)}
        visited(p) == \A q \in bad : Before(p, q)
    IN  [t \in 1..Len(tgts) |->
            [tgts[t] EXCEPT !.endpoints =
                [e \in 1..Len(tgts[t].endpoints) |->
                    IF visited(<<t, e>>)
                    THEN UpdateEp(tgts[t].endpoints[e], tv, rd, soerr, tmo, open)
                    ELSE tgts[t].endpoints[e]]]]

\* the descriptors update() closed
ClosedBy(old, new) ==
    {Ep(old, p).socket : p \in {q \in Positions(old) :
                                   Ep(old, q).socket # 0 /\ Ep(new, q).socket = 0}}

----------------------------------------------------------------------------
(* select *)

\* exit(EXIT_FAILURE) after the diagnostic msg
Fail(msg, arg) ==
    /\ pc' = "exit_failure"
    /\ diag' = <<msg, arg>>

\* the elapsed times select() can take with the bound to (None: no bound),
\* when ready tells whether a descriptor of the set is writable
SelectTimes(to, ready) ==
    {d \in {k * Tick : k \in 0..(horizon \div Tick)} :
        /\ now + d <= horizon
        /\ to # None => d <= to + Jitter
        /\ ~ready => (to # None /\ d >= to)}

\* the endpoints, as they are before update(), whose descriptor is in
\* the set ok of the writable descriptors without error while the time
\* passed since their attempt began has reached the timeout
Overdue(tgts, tv, ok, tmo) ==
    {Ep(tgts, p) : p \in {q \in Positions(tgts) :
        /\ Ep(tgts, q).socket \in ok
        /\ Elapsed(tv, Ep(tgts, q).tvs) >= tmo * UsPerMs}}

\* select() followed by update(), as prepare() and collect() call them:
\* r are the writable sockets, e those with a connection error, ub the
\* negative descriptors for which FD_ISSET happens to be true
SelectUpdate(fdset, to, after) ==
    \E r \in SUBSET (fdset \cap Sockets) :
    \E e \in SUBSET r :
    \E ub \in SUBSET (fdset \ DOMAIN fds) :
    \E d \in SelectTimes(to, r # {}) :
        LET tv == now + d
            new == Update(targets, tv, r \cup ub, e, timeout, DOMAIN fds)
        IN  /\ now' = tv
            /\ targets' = new
            /\ fds' = CloseAll(ClosedBy(targets, new))
            /\ IF UpdateFatal(targets, tv, r \cup ub, timeout, DOMAIN fds)
               THEN Fail("getsockopt", 0) /\ overdue' = {}
               ELSE /\ pc' = after /\ diag' = diag
                    /\ overdue' = Overdue(targets, tv, r \ e, timeout)

\* select() returns -1 and the loop goes on after the diagnostic
SelectIgnored ==
    /\ pc' = pc
    /\ diag' = <<"select failed", 0>>

\* select() returns -1
SelectFails == Fail("select failed", 0)

----------------------------------------------------------------------------
(* main: the option loop *)

Init ==
    /\ pc = "getopt"
    /\ argv \in CommandLines
    /\ nqueries = DefaultNqueries
    /\ timeout = DefaultTimeout
    /\ delay = DefaultDelay
    /\ targets = <<>>
    /\ i = 0
    /\ cur = <<0, 0>>
    /\ dts = 0
    /\ now = 0
    /\ \E stdin \in SUBSET {0} : fds = [f \in stdin \cup {1, 2} |-> "stdio"]
    /\ inet6ok \in BOOLEAN
    /\ prevIssue = None
    /\ lastIssue = None
    /\ diag = <<"", 0>>
    /\ smode = FALSE
    /\ skmode = FALSE
    /\ out = <<>>
    /\ horizon = MaxTicks * Tick
    /\ presort = <<>>
    /\ issued = <<>>
    /\ overdue = {}

\* getopt() returns the option o
Getopt(o) ==
    /\ pc = "getopt"
    /\ argv # <<>>
    /\ Head(argv).opt = o
    /\ argv' = Tail(argv)

\* case 'd'
OptD ==
    /\ Getopt("d")
    /\ LET num == Head(argv).arg
       IN  IF num >= 0
           THEN delay' = num /\ UNCHANGED <<pc, diag>>
           ELSE Fail("invalid argument for option -d", num) /\ UNCHANGED delay
    /\ UNCHANGED <<nqueries, timeout, targets, i, cur, dts, now, fds, inet6ok,
                   prevIssue, lastIssue>>
    /\ issued' = <<>> /\ overdue' = {}
    /\ UNCHANGED <<smode, skmode, tail>>

\* case 'q'
OptQ ==
    /\ Getopt("q")
    /\ LET num == Head(argv).arg
       IN  IF num > 0
           THEN nqueries' = num /\ UNCHANGED <<pc, diag>>
           ELSE Fail("invalid argument for option -q", num) /\ UNCHANGED nqueries
    /\ UNCHANGED <<timeout, delay, targets, i, cur, dts, now, fds, inet6ok,
                   prevIssue, lastIssue>>
    /\ issued' = <<>> /\ overdue' = {}
    /\ UNCHANGED <<smode, skmode, tail>>

\* the test  num > 0  of case 't'
ValidTimeout(num) == num > 0

\* case 't'
OptT ==
    /\ Getopt("t")
    /\ LET num == Head(argv).arg
       IN  IF ValidTimeout(num)
           THEN timeout' = num /\ UNCHANGED <<pc, diag>>
           ELSE Fail("invalid argument for option -t", num) /\ UNCHANGED timeout
    /\ UNCHANGED <<nqueries, delay, targets, i, cur, dts, now, fds, inet6ok,
                   prevIssue, lastIssue>>
    /\ issued' = <<>> /\ overdue' = {}
    /\ UNCHANGED <<smode, skmode, tail>>

\* case 's'
OptS ==
    /\ Getopt("s")
    /\ smode' = TRUE
    /\ issued' = <<>> /\ overdue' = {}
    /\ UNCHANGED <<pc, nqueries, timeout, delay, targets, i, cur, dts, now, fds,
                   inet6ok, prevIssue, lastIssue, diag, skmode, tail>>

\* case 'm'
OptM ==
    /\ Getopt("m")
    /\ skmode' = TRUE
    /\ issued' = <<>> /\ overdue' = {}
    /\ UNCHANGED <<pc, nqueries, timeout, delay, targets, i, cur, dts, now, fds,
                   inet6ok, prevIssue, lastIssue, diag, smode, tail>>

\* case 'f': import() resolves the names of the file at once, with the
\* value nqueries has at this point of the command line
OptF ==
    /\ Getopt("f")
    /\ \/ \E res \in [1..Len(FileHosts) -> FileResolutions] :
            /\ targets' = targets \o Imported(res, nqueries)
            /\ Few(targets')
            /\ UNCHANGED <<pc, diag>>
       \/ Fail("fopen", 0) /\ UNCHANGED targets
    /\ issued' = <<>> /\ overdue' = {}
    /\ UNCHANGED <<nqueries, timeout, delay, i, cur, dts, now, fds, inet6ok,
                   prevIssue, lastIssue, smode, skmode, tail>>

\* the end of the options: the positional host names are resolved, and
\* main() returns at once when no target is left
ExpandArgs ==
    /\ pc = "getopt"
    /\ argv = <<>>
    /\ \E res \in Answers :
        /\ targets' = targets \o Expanded(res, nqueries)
        /\ Few(targets')
        /\ pc' = IF targets' # <<>> THEN "main" ELSE "done"
    /\ i' = 0
    /\ UNCHANGED <<argv, nqueries, timeout, delay, cur, dts, now, fds, inet6ok,
                   prevIssue, lastIssue, diag>>
    /\ issued' = <<>> /\ overdue' = {}
    /\ UNCHANGED <<smode, skmode, tail>>

----------------------------------------------------------------------------
(* prepare *)

\* dd.tv_sec = delay / 1000; dd.tv_usec = (delay % 1000) * 1000
DelayUs(d) == (d \div 1000) * UsPerSec + (d % 1000) * UsPerMs

\* timercmp(&dd, &dtd, >), the comparison inverted
PacedInverted(dd, dtd) == dd > dtd

\* timercmp(&dd, &dtd, <): the pacing interval has passed
Paced(dd, dtd) == dd < dtd

\* the head of the loop body for the endpoint at p
EnterBody(p) ==
    /\ cur' = p
    /\ IF delay # 0
       THEN pc' = "pace" /\ dts' = now
       ELSE pc' = "issue" /\ dts' = dts

\* main()'s for loop calls prepare(): a round begins
Prepare ==
    /\ pc = "main"
    /\ i < nqueries
    /\ IF targets[1].num_endpoints = 0
       THEN pc' = "collect" /\ UNCHANGED <<cur, dts>>
       ELSE EnterBody(<<1, 1>>)
    /\ prevIssue' = None
    /\ lastIssue' = None
    /\ UNCHANGED <<argv, nqueries, timeout, delay, targets, i, now, fds,
                   inet6ok, diag>>
    /\ issued' = <<>> /\ overdue' = {}
    /\ UNCHANGED <<smode, skmode, tail>>

\* the pacing loop finds the interval passed and breaks
PaceBreak ==
    /\ pc = "pace"
    /\ Paced(DelayUs(delay), now - dts)
    /\ pc' = "issue"
    /\ UNCHANGED <<argv, nqueries, timeout, delay, targets, i, cur, dts, now, fds,
                   inet6ok, prevIssue, lastIssue, diag>>
    /\ overdue' = {}
    /\ UNCHANGED <<smode, skmode, tail, issued>>

\* one turn of the pacing loop: select() for the rest of the interval,
\* then update()
PaceWait ==
    /\ pc = "pace"
    /\ ~Paced(DelayUs(delay), now - dts)
    /\ \/ SelectUpdate(GenerateFdset(targets),
                       dts + DelayUs(delay) - now, "pace")
       \/ SelectFails /\ UNCHANGED <<targets, now, fds>> /\ overdue' = {}
    /\ UNCHANGED <<argv, nqueries, timeout, delay, i, cur, dts, inet6ok,
                   prevIssue, lastIssue>>
    /\ UNCHANGED <<smode, skmode, tail, issued>>

\* FD_SET with a negative descriptor writes outside the set: the run may
\* be aborted there
FdSetAbort ==
    /\ pc \in {"pace", "collect"}
    /\ \E f \in GenerateFdset(targets) : f < 0
    /\ pc' = "abort"
    /\ UNCHANGED <<argv, nqueries, timeout, delay, targets, i, cur, dts, now, fds,
                   inet6ok, prevIssue, lastIssue, diag>>
    /\ overdue' = {}
    /\ UNCHANGED <<smode, skmode, tail, issued>>

\* the endpoint at cur after socket(), fcntl(), connect(), gettimeofday()
IssueEp(ep, res, fd) ==
    CASE res = "eafnosupport" -> [ep EXCEPT !.socket = 0 - 1]
      [] res \in {"sockfail", "fcntlfail", "connfail"} -> [ep EXCEPT !.socket = 0]
      [] res = "inprogress" -> [ep EXCEPT !.socket = fd, !.tvs = now,
                                          !.att = @ + 1]

\* what the environment can answer to the calls of one issuance
IssueResults(ep) ==
    IF ep.family = "inet6" /\ ~inet6ok THEN {"eafnosupport"}
    ELSE {"sockfail", "fcntlfail", "connfail", "inprogress"}

\* the rest of the loop body: one connection attempt is issued
Issue ==
    /\ pc = "issue"
    /\ LET ep == Ep(targets, cur)
           fd == LowestFree
           nxt == NextPos(targets, cur)
       IN  /\ \E res \in IssueResults(ep) :
                /\ targets' = [targets EXCEPT ![cur[1]].endpoints[cur[2]] =
                                    IssueEp(ep, res, fd)]
                /\ fds' = IF res = "inprogress"
                          THEN [f \in DOMAIN fds \cup {fd} |->
                                    IF f = fd THEN ep.addr ELSE fds[f]]
                          ELSE fds
           /\ IF nxt = <<0, 0>>
              THEN pc' = "collect" /\ cur' = <<0, 0>> /\ dts' = 0
              ELSE EnterBody(nxt)
    /\ prevIssue' = lastIssue
    /\ lastIssue' = now
    /\ UNCHANGED <<argv, nqueries, timeout, delay, i, now, inet6ok, diag>>
    /\ issued' = Append(issued, Ep(targets, cur).addr)
    /\ overdue' = {}
    /\ UNCHANGED <<smode, skmode, tail>>

----------------------------------------------------------------------------
(* collect *)

\* timeout ? &to : NULL
CollectBound(tmo) == IF tmo # 0 THEN DelayUs(tmo) ELSE None

\* generate_fdset returns -1: collect() returns and the round is over
CollectDone ==
    /\ pc = "collect"
    /\ MaxOf(GenerateFdset(targets)) = 0 - 1
    /\ pc' = "main"
    /\ i' = i + 1
    /\ prevIssue' = None
    /\ lastIssue' = None
    /\ UNCHANGED <<argv, nqueries, timeout, delay, targets, cur, dts, now, fds,
                   inet6ok, diag>>
    /\ issued' = <<>> /\ overdue' = {}
    /\ UNCHANGED <<smode, skmode, tail>>

\* one turn of collect()'s loop: select(), then update()
CollectWait ==
    /\ pc = "collect"
    /\ MaxOf(GenerateFdset(targets)) # 0 - 1
    /\ \/ SelectUpdate(GenerateFdset(targets), CollectBound(timeout), "collect")
       \/ SelectFails /\ UNCHANGED <<targets, now, fds>> /\ overdue' = {}
    /\ UNCHANGED <<argv, nqueries, timeout, delay, i, cur, dts, inet6ok,
                   prevIssue, lastIssue>>
    /\ UNCHANGED <<smode, skmode, tail, issued>>

----------------------------------------------------------------------------
(* sort *)

\* cmp() comparing the sums instead of the means
CmpSums(pa, pb) ==
    IF pa.tot = 0 \/ pb.tot = 0 THEN 0
    ELSE IF pa.sum < pb.sum THEN 0 - 1
    ELSE IF pa.sum > pb.sum THEN 1
    ELSE 0

\* cmp(): the means are compared as the unsigned division gives them
Cmp(pa, pb) ==
    IF pa.tot = 0 \/ pb.tot = 0 THEN 0
    ELSE IF pa.sum \div pa.tot < pb.sum \div pb.tot THEN 0 - 1
    ELSE IF pa.sum \div pa.tot > pb.sum \div pb.tot THEN 1
    ELSE 0

\* qsort() is the C library's.  Two implementations are followed: the
\* insertion sort that BSD's qsort and glibc's quicksort use for short
\* arrays, and glibc's merge sort.

\* the element x is moved left past the elements that compare greater
RECURSIVE InsertLast(_, _)
InsertLast(a, x) ==
    IF a = <<>> \/ Cmp(a[Len(a)], x) <= 0 THEN Append(a, x)
    ELSE Append(InsertLast(SubSeq(a, 1, Len(a) - 1), x), a[Len(a)])

InsertionSort(a) ==
    LET F[k \in 0..Len(a)] == IF k = 0 THEN <<>> ELSE InsertLast(F[k - 1], a[k])
    IN  F[Len(a)]

\* the merge takes from the left run unless its head compares greater
RECURSIVE Merge(_, _)
Merge(l, r) ==
    IF l = <<>> THEN r
    ELSE IF r = <<>> THEN l
    ELSE IF Cmp(Head(l), Head(r)) <= 0 THEN <<Head(l)>> \o Merge(Tail(l), r)
    ELSE <<Head(r)>> \o Merge(l, Tail(r))

RECURSIVE MergeSort(_)
MergeSort(a) ==
    IF Len(a) <= 1 THEN a
    ELSE LET n1 == Len(a) \div 2
         IN  Merge(MergeSort(SubSeq(a, 1, n1)),
                   MergeSort(SubSeq(a, n1 + 1, Len(a))))

QsortImpls == {"insertion", "merge"}

\* qsort(tp->endpoints, tp->num_endpoints, sizeof(*ep), cmp)
Qsort(a, impl) == IF impl = "insertion" THEN InsertionSort(a) ELSE MergeSort(a)

\* if (smode) sort(targets)
Sort ==
    /\ pc = "main"
    /\ i >= nqueries
    /\ smode
    /\ \E impl \in QsortImpls :
        targets' = [t \in 1..Len(targets) |->
                        [targets[t] EXCEPT !.endpoints = Qsort(@, impl)]]
    /\ presort' = targets
    /\ pc' = "report"
    /\ overdue' = {}
    /\ UNCHANGED <<argv, nqueries, timeout, delay, i, cur, dts, now, fds, inet6ok,
                   prevIssue, lastIssue, diag, smode, skmode, out, horizon,
                   issued>>

----------------------------------------------------------------------------
(* report, report_sk, cleanup *)

\* getnameinfo() with NI_NUMERICHOST does not fail on an address that
\* getaddrinfo() returned, and stdout does not block: the lines below are
\* all written.

\* the line of report() for one endpoint: its address and, for every
\* sample, the time when it is not negative and a star (None) otherwise
ReportLine(tp, ep) ==
    [host |-> tp.host, addr |-> ep.addr, status |-> "",
     samples |-> [k \in 1..ep.idx |->
                     IF ep.values[k] >= 0 THEN ep.values[k] ELSE None]]

\* report(): for every target its host, then the lines of its endpoints
ReportOf(tgts) ==
    LET F[t \in 0..Len(tgts)] ==
            IF t = 0 THEN <<>>
            ELSE F[t - 1]
                   \o <<[host |-> tgts[t].host, addr |-> <<>>, status |-> "",
                         samples |-> <<>>]>>
                   \o [e \in 1..Len(tgts[t].endpoints) |->
                          ReportLine(tgts[t], tgts[t].endpoints[e])]
    IN  F[Len(tgts)]

\* ep->cnt ? "OK" : "FAIL"
Status(ep) == IF ep.cnt # 0 THEN "OK" ELSE "FAIL"

\* the line of report_sk() for one endpoint
ReportSkLine(tp, ep) ==
    [host |-> tp.host, addr |-> ep.addr, status |-> Status(ep),
     samples |-> [k \in 1..ep.idx |-> ep.values[k]]]

\* report_sk(): one line for every endpoint
ReportSkOf(tgts) ==
    LET F[t \in 0..Len(tgts)] ==
            IF t = 0 THEN <<>>
            ELSE F[t - 1] \o [e \in 1..Len(tgts[t].endpoints) |->
                                ReportSkLine(tgts[t], tgts[t].endpoints[e])]
    IN  F[Len(tgts)]

\* a sample was written past the end of the array values
HeapDamaged(tgts) == \E p \in Positions(tgts) : Ep(tgts, p).idx > Ep(tgts, p).cap

\* the rounds are over, and the targets sorted if they are to be
AtReport == pc = "report" \/ (pc = "main" /\ i >= nqueries /\ ~smode)

\* cleanup() and return EXIT_SUCCESS; free() may abort on a damaged heap
Cleanup == pc' \in IF HeapDamaged(targets) THEN {"done", "abort"} ELSE {"done"}

\* report(targets) and the end of main()
Report ==
    /\ AtReport
    /\ ~skmode
    /\ out' = ReportOf(targets)
    /\ Cleanup
    /\ overdue' = {}
    /\ UNCHANGED <<argv, nqueries, timeout, delay, targets, i, cur, dts, now, fds,
                   inet6ok, prevIssue, lastIssue, diag, smode, skmode, horizon,
                   presort, issued>>

\* report_sk(targets) and the end of main()
ReportSk ==
    /\ AtReport
    /\ skmode
    /\ out' = ReportSkOf(targets)
    /\ Cleanup
    /\ overdue' = {}
    /\ UNCHANGED <<argv, nqueries, timeout, delay, targets, i, cur, dts, now, fds,
                   inet6ok, prevIssue, lastIssue, diag, smode, skmode, horizon,
                   presort, issued>>

----------------------------------------------------------------------------

Next ==
    \/ OptD \/ OptQ \/ OptT \/ OptS \/ OptM \/ OptF \/ ExpandArgs
    \/ Prepare \/ PaceBreak \/ PaceWait \/ FdSetAbort \/ Issue
    \/ CollectDone \/ CollectWait \/ Sort \/ Report \/ ReportSk

Spec == Init /\ [][Next]_vars

----------------------------------------------------------------------------
(* The runs to their end: a clock that goes far enough, and fairness *)

\* the clock stops advancing after this many milliseconds
LiveTicks == 8

\* a timeout of 2 ms with every option of the program
LiveLines ==
    {<<Opt("t", 2), Opt("d", 1), Opt("q", 1), Opt("s", 0)>>,
     <<Opt("t", 2), Opt("d", 0), Opt("q", 2), Opt("m", 0)>>,
     <<Opt("t", 2), Opt("d", 0), Opt("q", 1), Opt("f", 0)>>}

LiveInit ==
    /\ pc = "getopt"
    /\ argv \in LiveLines
    /\ nqueries = DefaultNqueries
    /\ timeout = DefaultTimeout
    /\ delay = DefaultDelay
    /\ targets = <<>>
    /\ i = 0
    /\ cur = <<0, 0>>
    /\ dts = 0
    /\ now = 0
    /\ \E stdin \in SUBSET {0} : fds = [f \in stdin \cup {1, 2} |-> "stdio"]
    /\ inet6ok \in BOOLEAN
    /\ prevIssue = None
    /\ lastIssue = None
    /\ diag = <<"", 0>>
    /\ smode = FALSE
    /\ skmode = FALSE
    /\ out = <<>>
    /\ horizon = LiveTicks * Tick
    /\ presort = <<>>
    /\ issued = <<>>
    /\ overdue = {}

\* the process is scheduled again and again, and the clock keeps advancing:
\* a select() that could return later does not return at once for ever
LiveSpec == LiveInit /\ [][Next]_vars /\ WF_vars(Next)

----------------------------------------------------------------------------
(* sort() on targets of two and three endpoints *)

\* the rounds run before sort()
SortRounds == 2
\* the numbers of endpoints of the target
SortSizes == {2, 3}
\* how one attempt ended: connected or refused, after us microseconds
SortAttempts ==
    {[ok |-> TRUE, us |-> Tick], [ok |-> TRUE, us |-> 3 * Tick],
     [ok |-> FALSE, us |-> Tick]}

\* the endpoint k of host h after the attempts atts, each begun at time 0 on
\* descriptor 3 and recorded by update()
Recorded(h, k, atts) ==
    LET F[n \in 0..Len(atts)] ==
            IF n = 0 THEN NewEndpoint(h, k, "inet", Len(atts))
            ELSE UpdateEp([F[n - 1] EXCEPT !.socket = 3, !.tvs = 0,
                                           !.att = @ + 1],
                          atts[n].us, {3},
                          IF atts[n].ok THEN {} ELSE {3},
                          DefaultTimeout, {3})
    IN  F[Len(atts)]

\* one target whose endpoints have run SortRounds rounds
SortTargets ==
    {<<[host |-> "a", num_endpoints |-> Len(h),
        endpoints |-> [k \in 1..Len(h) |-> Recorded("a", k, h[k])]]>> :
        h \in UNION {[1..n -> [1..SortRounds -> SortAttempts]] : n \in SortSizes}}

\* main() after the last round of  happy -q 2 -d 0 -s [-m] a
SortInit ==
    /\ pc = "main"
    /\ argv = <<>>
    /\ nqueries = SortRounds
    /\ timeout = DefaultTimeout
    /\ delay = 0
    /\ targets \in SortTargets
    /\ i = nqueries
    /\ cur = <<0, 0>>
    /\ dts = 0
    /\ now = MaxTicks * Tick
    /\ fds = [f \in {0, 1, 2} |-> "stdio"]
    /\ inet6ok = TRUE
    /\ prevIssue = None
    /\ lastIssue = None
    /\ diag = <<"", 0>>
    /\ smode = TRUE
    /\ skmode \in BOOLEAN
    /\ out = <<>>
    /\ horizon = MaxTicks * Tick
    /\ presort = <<>>
    /\ issued = <<>>
    /\ overdue = {}

SortNext == Sort \/ Report \/ ReportSk

SortSpec == SortInit /\ [][SortNext]_vars

----------------------------------------------------------------------------
(* Properties *)

Endpoints == {Ep(targets, p) : p \in Positions(targets)}

\* the kernel holds an open socket created for the endpoint ep
InFlight(ep) == \E f \in Sockets : fds[f] = ep.addr

Abs(x) == IF x < 0 THEN 0 - x ELSE x

\* C1: after R rounds, every endpoint whose attempt was initiated in each
\* of the R rounds has exactly R recorded samples.
C1_SamplesEqualRounds ==
    pc = "main" => \A ep \in Endpoints : ep.att = i => ep.idx = i

\* C2: for every endpoint tot <= cnt and cnt = idx, whatever mix of
\* successes, connection failures and timeouts update() has recorded.
C2_CountsAgree ==
    \A ep \in Endpoints : ep.tot <= ep.cnt /\ ep.cnt = ep.idx

\* C3: the number of non-negative samples among values[0..idx-1] is tot: a
\* sample is non-negative exactly when it was recorded for a successful
\* connect, for every elapsed time including 0.
C3_NonNegativeIffSuccess ==
    \A ep \in Endpoints :
        /\ Cardinality({k \in 1..ep.idx : ep.values[k] >= 0}) = ep.tot
        /\ \A k \in 1..ep.idx : ep.values[k] >= 0 <=> ep.kinds[k] = "ok"

\* C4: rounds never overlap: when collect() has returned and the next
\* prepare() is about to start, no endpoint has an outstanding attempt.
C4_RoundsNeverOverlap ==
    pc = "main" => \A ep \in Endpoints : ~InFlight(ep)

\* C5: an endpoint's socket field is non-zero if and only if an attempt has
\* been initiated for it and is not finalized yet, whatever descriptor
\* socket() returned; no endpoint has two outstanding attempts.
C5_PendingIffInFlight ==
    \A ep \in Endpoints :
        /\ ep.socket # 0 <=> InFlight(ep)
        /\ Cardinality({f \in Sockets : fds[f] = ep.addr}) <= 1

\* C6: every open socket is the pending handle of its endpoint, there are
\* at most as many open sockets as endpoints, and none is open once
\* collect() has returned.
C6_HandlesReleased ==
    /\ \A f \in Sockets :
          \E ep \in Endpoints : ep.addr = fds[f] /\ ep.socket # 0 /\ ep.socket = f
    /\ Cardinality(Sockets) <= Cardinality(Endpoints)
    /\ pc \in {"main", "done"} => Sockets = {}

\* C7: an attempt skipped at setup adds no sample: an endpoint never has
\* more samples than attempts initiated for it.
C7_SkippedAddsNoSample ==
    \A ep \in Endpoints : ep.idx <= ep.att

\* C8: a timeout of 0 can be configured: the option -t 0 is not refused.
C8_ZeroTimeoutAccepted ==
    diag # <<"invalid argument for option -t", 0>>

\* the scheduling tolerance of a timed-out sample: one late wake-up
Tolerance == Jitter

\* C9: every sample of a timed-out attempt has a magnitude of at least
\* the timeout and at most the timeout plus the scheduling tolerance.
C9_TimeoutMagnitude ==
    \A ep \in Endpoints : \A k \in 1..ep.idx :
        ep.kinds[k] = "timeout" =>
            /\ Abs(ep.values[k]) >= timeout * UsPerMs
            /\ Abs(ep.values[k]) <= timeout * UsPerMs + Tolerance

\* C10: with a non-zero delay, two successive issuances of one round are
\* at least the delay apart.
C10_Pacing ==
    (delay # 0 /\ prevIssue # None) => lastIssue - prevIssue >= DelayUs(delay)

\* two paced issuances with a completion drained during the pacing wait
C10_Witness ==
    /\ delay # 0
    /\ prevIssue # None
    /\ \E ep \in Endpoints :
        /\ ep.idx = i + 1
        /\ ep.kinds[ep.idx] \in {"ok", "err", "timeout"}
        /\ ep.tvs >= prevIssue
        /\ ep.tvs + Abs(ep.values[ep.idx]) < lastIssue

----------------------------------------------------------------------------
(* Properties of the report and of the fatal exits *)

\* the endpoint a line of the report is about
EpOf(line) == CHOOSE ep \in Endpoints : ep.addr = line.addr

\* C13: in the machine readable report the status of an endpoint is OK
\* if and only if tot > 0: an endpoint whose attempts all ended in a
\* connection failure or a timeout is reported FAIL.
C13_StatusOkIffSuccess ==
    \A k \in DOMAIN out :
        out[k].status # "" => (out[k].status = "OK" <=> EpOf(out[k]).tot > 0)

\* the fatal failures of select() and getsockopt()
FatalDiags == {"select failed", "getsockopt"}

\* C14: once select() or getsockopt() has failed the process has exited
\* with EXIT_FAILURE, and nothing of the report is ever written.
C14_FatalNoReport ==
    diag[1] \in FatalDiags => (pc = "exit_failure" /\ out = <<>>)

\* select() failed in the second round, with samples already recorded
C14_Witness ==
    /\ diag[1] = "select failed"
    /\ pc = "exit_failure"
    /\ i = 1
    /\ \E ep \in Endpoints : ep.idx > 0

\* main() has returned or the process has been ended
Ended == pc \in {"done", "exit_failure", "abort"}

\* C15: when a target was resolved and neither select() nor getsockopt()
\* fails, the run never ends otherwise than after nqueries rounds, with
\* the report written and EXIT_SUCCESS.
C15_RunsToReport ==
    (Ended /\ targets # <<>> /\ diag[1] \notin FatalDiags) =>
        (pc = "done" /\ i = nqueries /\ out # <<>>)

\* C16: an attempt whose elapsed time has reached the timeout is recorded
\* as a failure, with a negative sample and tot, sum and cnt as they were,
\* even when its descriptor is writable and SO_ERROR is zero.
C16_TimeoutFirst ==
    \A o \in overdue :
        LET ep == EpOf(o)
        IN  /\ ep.idx = o.idx + 1
            /\ ep.values[ep.idx] < 0
            /\ ep.tot = o.tot /\ ep.sum = o.sum /\ ep.cnt = o.cnt
            /\ ep.socket = 0

\* update() has met an attempt both connected and past the timeout
C16_Witness ==
    \E o \in overdue : o.socket > 0 /\ EpOf(o).idx = o.idx + 1

\* the addresses of all endpoints, in target then endpoint order
AddrsInOrder(tgts) ==
    LET F[t \in 0..Len(tgts)] ==
            IF t = 0 THEN <<>>
            ELSE F[t - 1] \o [e \in 1..Len(tgts[t].endpoints) |->
                                tgts[t].endpoints[e].addr]
    IN  F[Len(tgts)]

\* C17: in every round prepare() visits every endpoint of every target
\* once, in target then endpoint order: inside prepare() the endpoints
\* visited are those before the cursor, when prepare() returns they are all
\* the endpoints, and the run does not end inside prepare(), with endpoints
\* left to visit, unless select() fails.
C17_VisitsAll ==
    LET all == AddrsInOrder(targets)
    IN  /\ pc \in {"pace", "issue"} =>
            \E n \in 0..(Len(all) - 1) :
                /\ issued = SubSeq(all, 1, n)
                /\ all[n + 1] = Ep(targets, cur).addr
        /\ pc = "collect" => issued = all
        /\ (Ended /\ diag[1] # "select failed") => cur = <<0, 0>>

\* C20: the samples written for an endpoint never exceed the capacity
\* allocated by expand() nor the number of rounds begun, for every order
\* of the options on the command line.
C20_WithinCapacity ==
    \A ep \in Endpoints :
        /\ ep.idx <= ep.cap
        /\ ep.idx <= i + 1

\* C18: with a non-zero timeout and a clock that keeps advancing, every
\* round terminates and the program reaches the report after nqueries
\* rounds, unless select() fails.
C18_ReachesReport ==
    <>(\/ pc = "done" /\ i = nqueries /\ out # <<>>
       \/ diag[1] = "select failed"
       \/ targets = <<>> /\ Ended)

----------------------------------------------------------------------------
(* Properties of sort() *)

\* the mean cmp() computes
MeanOf(ep) == ep.sum \div ep.tot

\* b holds the elements of a, each as often as a does
IsPermutation(a, b) ==
    /\ Len(a) = Len(b)
    /\ \A x \in {a[k] : k \in DOMAIN a} \cup {b[k] : k \in DOMAIN b} :
        Cardinality({k \in DOMAIN a : a[k] = x})
            = Cardinality({k \in DOMAIN b : b[k] = x})

\* sort() has run
Sorted == presort # <<>>

\* C11: after sort(), the endpoints of every target whose endpoints all
\* have tot > 0 are in non-decreasing order of sum/tot, and the endpoints of
\* every target are a permutation of its endpoints before sort().
C11_SortedByMean ==
    Sorted =>
        \A t \in DOMAIN targets :
            LET eps == targets[t].endpoints
            IN  /\ IsPermutation(presort[t].endpoints, eps)
                /\ (\A k \in DOMAIN eps : eps[k].tot > 0) =>
                        \A j, k \in DOMAIN eps :
                            j < k => MeanOf(eps[j]) <= MeanOf(eps[k])

\* sort() has reordered three endpoints that all have successes
C11_Witness ==
    /\ Sorted
    /\ \E t \in DOMAIN targets :
        LET eps == targets[t].endpoints
        IN  /\ Len(eps) = 3
            /\ \A k \in DOMAIN eps : eps[k].tot > 0
            /\ eps # presort[t].endpoints
            /\ MeanOf(eps[1]) < MeanOf(eps[2])
            /\ MeanOf(eps[2]) < MeanOf(eps[3])

\* C12: after sort(), of the two endpoints of a target of which one has a
\* success and the other has none, the one with the success comes first.
C12_SuccessFirst ==
    Sorted =>
        \A t \in DOMAIN targets :
            LET eps == targets[t].endpoints
            IN  (Len(eps) = 2 /\ \E k \in DOMAIN eps : eps[k].tot > 0) =>
                    eps[1].tot > 0

\* C19: after sort() of a target of three endpoints or more, some with
\* successes and some without, those with successes are, among themselves,
\* in non-decreasing order of sum/tot.
C19_SuccessesOrdered ==
    Sorted =>
        \A t \in DOMAIN targets :
            LET eps == targets[t].endpoints
            IN  (Len(eps) >= 3 /\ \E k \in DOMAIN eps : eps[k].tot = 0) =>
                    \A j, k \in DOMAIN eps :
                        (j < k /\ eps[j].tot > 0 /\ eps[k].tot > 0) =>
                            MeanOf(eps[j]) <= MeanOf(eps[k])

====
